---- MODULE Spec2Model ----
(***************************************************************************)
(* Model of the DQN scaler dashboard (Angular): the client-side session    *)
(* (AuthService, LoginComponent, route table), and the view controllers    *)
(* (DashboardComponent, DecisionsComponent, ConfigComponent) with their    *)
(* in-flight HTTP requests and timers.  Time is counted in seconds.        *)
(***************************************************************************)
EXTENDS Integers, Sequences, FiniteSets, TLC

\* ------------------------------------------------------------------ bounds
\* how long the session clock runs
MaxSessionTime == 2
\* how many logins may be waiting for their delay at once
MaxPending == 1
\* how long the dashboard clock runs
MaxDashTime == 21
\* how many times the operator presses a dashboard button
MaxDashCalls == 1
\* how many list requests the decisions view issues
MaxDecCalls == 3
\* the longest list of decisions the backend answers with
MaxDecisions == 2
\* how long the config clock runs
MaxCfgTime == 4
\* how many times the operator saves or resets the config
MaxCfgCalls == 2
\* how many ApiService calls the views make
MaxApiCalls == 2

\* ------------------------------------------------------- program constants
\* delay(1000) in AuthService.login, in seconds
LoginDelay == 1
\* interval(10000) in DashboardComponent.ngOnInit, in seconds
RefreshPeriod == 10
\* setTimeout(..., 3000) in ConfigComponent.saveConfig, in seconds
SuccessTimeout == 3
\* limit = 50 in DecisionsComponent
DefaultLimit == 50

NULL == "<null>"

VARIABLES
    now,        \* the clock, in seconds
    last,       \* the operation or callback that ran last
    storage,    \* localStorage: key -> string or NULL
    subject,    \* AuthService.isAuthenticatedSubject.value
    pending,    \* logins whose delay has not elapsed yet, in submission order;
                \* live: the LoginComponent that subscribed is the one built last
    lError,     \* error of the LoginComponent the router built last
    lLoading,   \* loading of the LoginComponent the router built last
    route,      \* the route whose component is activated
    sHist,      \* what the last session operation saw and returned
    dash,       \* the fields of the DashboardComponent
    dLife,      \* "new", "active" (after ngOnInit) or "destroyed"
    refresh,    \* DashboardComponent.refreshSubscription: interval + switchMap
    dFlight,    \* requests of the dashboard in flight, counted per operation
    dHist,      \* counters of what the dashboard has done
    dec,        \* the fields of the DecisionsComponent
    decLife,    \* "new" or "active" (after ngOnInit)
    decFlight,  \* list requests in flight: their positions in decHist.issued
    decHist,    \* the list requests issued so far, the last response
    cfg,        \* the fields of the ConfigComponent
    cfgLife,    \* "new" or "active" (after ngOnInit)
    cfgFlight,  \* requests of the config view in flight, per operation
    cfgTimers,  \* deadlines of the pending setTimeout callbacks, in order
    cfgHist,    \* the update requests sent so far
    apiFlight,  \* ApiService calls whose HTTP request is in flight, per operation
    apiHist,    \* calls made, HTTP requests sent, what the last caller got
    nDecision,  \* the ScalingDecision handed to the accessors
    nOut        \* what the accessors returned for it

sessionVars == <<storage, subject, pending, lError, lLoading, route, sHist>>
dashVars == <<dash, dLife, refresh, dFlight, dHist>>
decVars == <<dec, decLife, decFlight, decHist>>
cfgVars == <<cfg, cfgLife, cfgFlight, cfgTimers, cfgHist>>
apiVars == <<apiFlight, apiHist>>
normVars == <<nDecision, nOut>>

vars == <<now, last, storage, subject, pending, lError, lLoading, route, sHist,
          dash, dLife, refresh, dFlight, dHist,
          dec, decLife, decFlight, decHist,
          cfg, cfgLife, cfgFlight, cfgTimers, cfgHist,
          apiFlight, apiHist, nDecision, nOut>>

\* --------------------------------------------------------------- session
Keys == {"isAuthenticated", "username"}
Usernames == {"admin", "Admin", ""}
Passwords == {"admin", "pw", ""}
Paths == {"", "login", "dashboard", "pods", "decisions", "config", "nowhere"}

EmptyStorage == [k \in Keys |-> NULL]

setItem(st, k, v) == [st EXCEPT ![k] = v]
removeItem(st, k) == [st EXCEPT ![k] = NULL]
getItem(st, k) == st[k]

getStoredAuthState(st) == getItem(st, "isAuthenticated") = "true"

isAuthenticated == subject

getUsername == getItem(storage, "username")

isValid_UserOnly(username, password) == username = "admin"

isValid(username, password) == username = "admin" /\ password = "admin"

LoginTapStorage_NoFlag(st, success, username) ==
    IF success THEN setItem(st, "username", username) ELSE st

\* the tap() of AuthService.login: what a resolving login writes
LoginTapStorage(st, success, username) ==
    IF success
    THEN setItem(setItem(st, "isAuthenticated", "true"), "username", username)
    ELSE st

LoginTapSubject(sub, success) == IF success THEN TRUE ELSE sub

LogoutStorage_KeepUser(st) == removeItem(st, "isAuthenticated")

\* AuthService.logout: the storage it leaves
LogoutStorage(st) == removeItem(removeItem(st, "isAuthenticated"), "username")

Routes_ConfigOpen == <<
    [path |-> "",          redirectTo |-> "dashboard", guarded |-> FALSE],
    [path |-> "login",     redirectTo |-> NULL,        guarded |-> FALSE],
    [path |-> "dashboard", redirectTo |-> NULL,        guarded |-> TRUE],
    [path |-> "pods",      redirectTo |-> NULL,        guarded |-> TRUE],
    [path |-> "decisions", redirectTo |-> NULL,        guarded |-> TRUE],
    [path |-> "config",    redirectTo |-> NULL,        guarded |-> FALSE],
    [path |-> "**",        redirectTo |-> "dashboard", guarded |-> FALSE] >>

\* the route table of app.routes.ts, in matching order
Routes == <<
    [path |-> "",          redirectTo |-> "dashboard", guarded |-> FALSE],
    [path |-> "login",     redirectTo |-> NULL,        guarded |-> FALSE],
    [path |-> "dashboard", redirectTo |-> NULL,        guarded |-> TRUE],
    [path |-> "pods",      redirectTo |-> NULL,        guarded |-> TRUE],
    [path |-> "decisions", redirectTo |-> NULL,        guarded |-> TRUE],
    [path |-> "config",    redirectTo |-> NULL,        guarded |-> TRUE],
    [path |-> "**",        redirectTo |-> "dashboard", guarded |-> FALSE] >>

MatchRoute(path) ==
    LET hits == {i \in 1..Len(Routes) :
                    Routes[i].path = path \/ Routes[i].path = "**"}
        first == CHOOSE i \in hits : \A j \in hits : i <= j
    IN Routes[first]

\* the route a URL ends at once its redirects are followed
ResolveRoute(path) ==
    LET r == MatchRoute(path)
    IN IF r.redirectTo # NULL THEN MatchRoute(r.redirectTo) ELSE r

\* guards/auth.guard.ts: let the navigation through when authenticated,
\* otherwise send it to the login route
authGuard(auth, target) == IF auth THEN target ELSE "login"

\* the path activated by a navigation to `path` with session state `auth`
Activate(path, auth) ==
    LET r == ResolveRoute(path)
    IN IF r.guarded THEN authGuard(auth, r.path) ELSE r.path

NoHist == [pre |-> [storage |-> EmptyStorage, subject |-> FALSE],
           login |-> [username |-> "", password |-> "", at |-> 0,
                      live |-> FALSE],
           result |-> FALSE, requested |-> NULL, authAtNav |-> FALSE,
           sinceLogout |-> "never"]

Snapshot == [storage |-> storage, subject |-> subject]

\* ------------------------------------------------------------- dashboard
Stats == {"s1", "s2"}
StatResponses == [success : BOOLEAN, statistics : Stats]
AutoscaleStatuses == {[enabled |-> TRUE], [enabled |-> FALSE]}

\* Config of api.models.ts
BaseConfig ==
    [model_path |-> "model.pth", state_dim |-> 8, action_dim |-> 3,
     history_window |-> 5, min_cpu |-> 1, max_cpu |-> 4, min_memory |-> 128,
     max_memory |-> 4096, scale_factor |-> 1, dry_run |-> FALSE,
     in_cluster |-> FALSE, namespaces |-> <<"default">>,
     auto_scale_enabled |-> FALSE, auto_scale_interval |-> 60,
     scaling_cooldown |-> 5]

ConfigValues ==
    {BaseConfig,
     [BaseConfig EXCEPT !.dry_run = TRUE, !.scale_factor = 2,
                        !.in_cluster = TRUE, !.namespaces = <<"default", "prod">>,
                        !.auto_scale_enabled = TRUE,
                        !.auto_scale_interval = 120,
                        !.scaling_cooldown = 10]}

DashOps == {"statistics", "autoscaleStatus", "config",
            "autoscaleStart", "autoscaleStop", "scaleAll"}

ActionOps == {"autoscaleStart", "autoscaleStop", "scaleAll"}

\* a nullable object is an empty or a one-element sequence
None == <<>>
Some(x) == <<x>>

\* a DashboardComponent as constructed: its fields, no subscription, no
\* request of its own in flight
DashNew == [statistics |-> NULL, autoscaleStatus |-> None, config |-> None,
            loading |-> TRUE, error |-> NULL]
RefreshNew == [state |-> "none", next |-> 0, inflight |-> FALSE]
DashFlightNew == [o \in DashOps |-> 0]
DashHistNew == [activatedAt |-> 0, refreshIssued |-> 0, calls |-> 0,
                loadFailed |-> FALSE, got |-> NULL]

DashInit ==
    /\ dash = DashNew
    /\ dLife = "new"
    /\ refresh = RefreshNew
    /\ dFlight = DashFlightNew
    /\ dHist = DashHistNew

\* loadDashboard: the fields it sets before the three calls
LoadDashboardFields(d) == [d EXCEPT !.loading = TRUE, !.error = NULL]

\* loadDashboard: the three requests it issues
LoadDashboardCalls(f) ==
    [f EXCEPT !["statistics"] = @ + 1, !["autoscaleStatus"] = @ + 1,
              !["config"] = @ + 1]

\* the callbacks of loadDashboard's getStatistics()
StatisticsNext(d, response) ==
    IF response.success THEN [d EXCEPT !.statistics = response.statistics]
    ELSE d
StatisticsError(d) == [d EXCEPT !.error = "Failed to load statistics"]

\* the callbacks of loadDashboard's getAutoscaleStatus()
AutoscaleStatusNext(d, status) == [d EXCEPT !.autoscaleStatus = Some(status)]
AutoscaleStatusError(d) == d

\* the callbacks of loadDashboard's getConfig()
DashConfigNext(d, config) ==
    [d EXCEPT !.config = Some(config), !.loading = FALSE]
DashConfigError(d) ==
    [d EXCEPT !.error = "Failed to load configuration", !.loading = FALSE]

\* the callbacks of the periodic refresh
RefreshNext(d, response) ==
    IF response.success THEN [d EXCEPT !.statistics = response.statistics]
    ELSE d
RefreshError_Banner(d) == [d EXCEPT !.error = "Failed to load statistics"]

RefreshError(d) == d

Done(f, op) == [f EXCEPT ![op] = @ - 1]

\* ngOnInit of a component whose fields are d, with f in flight
DashboardOnInit(d, f, h) ==
    /\ dLife' = "active"
    /\ dash' = LoadDashboardFields(d)
    /\ dFlight' = LoadDashboardCalls(f)
    /\ refresh' = [state |-> "open", next |-> now + RefreshPeriod,
                   inflight |-> FALSE]
    /\ dHist' = [h EXCEPT !.activatedAt = now, !.loadFailed = FALSE]

\* ngOnDestroy: unsubscribing ends the interval and the request switchMap
\* has in flight
DashboardOnDestroy ==
    /\ dLife' = "destroyed"
    /\ refresh' = [refresh EXCEPT !.state = "closed", !.inflight = FALSE]
    /\ UNCHANGED <<dash, dFlight, dHist>>

\* the router's outlet when the activated path goes from `from` to `to`:
\* entering /dashboard builds a DashboardComponent and runs its ngOnInit
\* (what an earlier instance still has in flight reaches that instance
\* only), leaving it runs ngOnDestroy
DashOutlet(from, to) ==
    IF to = "dashboard" /\ from # "dashboard"
    THEN DashboardOnInit(DashNew, DashFlightNew, DashHistNew)
    ELSE IF from = "dashboard" /\ to # "dashboard" /\ dLife = "active"
    THEN DashboardOnDestroy
    ELSE UNCHANGED dashVars

NgOnInit ==
    /\ dLife = "new"
    /\ DashboardOnInit(dash, dFlight, dHist)
    /\ last' = "ngOnInit"
    /\ UNCHANGED now
    /\ UNCHANGED <<sessionVars, decVars, cfgVars, apiVars, normVars>>

NgOnDestroy ==
    /\ dLife = "active"
    /\ DashboardOnDestroy
    /\ last' = "ngOnDestroy"
    /\ UNCHANGED now
    /\ UNCHANGED <<sessionVars, decVars, cfgVars, apiVars, normVars>>

\* the response (ok) or failure (~ok) of a getStatistics() of loadDashboard
StatisticsResponse(ok, response) ==
    /\ dFlight["statistics"] > 0
    /\ dFlight' = Done(dFlight, "statistics")
    /\ IF ok
       THEN /\ dash' = StatisticsNext(dash, response)
            /\ last' = "statisticsNext"
            /\ dHist' = [dHist EXCEPT !.got = IF response.success
                                              THEN response.statistics
                                              ELSE NULL]
       ELSE /\ dash' = StatisticsError(dash)
            /\ last' = "statisticsError"
            /\ dHist' = [dHist EXCEPT !.loadFailed = TRUE]
    /\ UNCHANGED <<now, dLife, refresh>>
    /\ UNCHANGED <<sessionVars, decVars, cfgVars, apiVars, normVars>>

AutoscaleStatusResponse(ok, status) ==
    /\ dFlight["autoscaleStatus"] > 0
    /\ dFlight' = Done(dFlight, "autoscaleStatus")
    /\ IF ok
       THEN /\ dash' = AutoscaleStatusNext(dash, status)
            /\ last' = "autoscaleStatusNext"
            /\ UNCHANGED dHist
       ELSE /\ dash' = AutoscaleStatusError(dash)
            /\ last' = "autoscaleStatusError"
            /\ dHist' = [dHist EXCEPT !.loadFailed = TRUE]
    /\ UNCHANGED <<now, dLife, refresh>>
    /\ UNCHANGED <<sessionVars, decVars, cfgVars, apiVars, normVars>>

DashConfigResponse(ok, config) ==
    /\ dFlight["config"] > 0
    /\ dFlight' = Done(dFlight, "config")
    /\ IF ok
       THEN /\ dash' = DashConfigNext(dash, config)
            /\ last' = "configNext"
            /\ UNCHANGED dHist
       ELSE /\ dash' = DashConfigError(dash)
            /\ last' = "configError"
            /\ dHist' = [dHist EXCEPT !.loadFailed = TRUE]
    /\ UNCHANGED <<now, dLife, refresh>>
    /\ UNCHANGED <<sessionVars, decVars, cfgVars, apiVars, normVars>>

ToggleAutoscale ==
    /\ dLife = "active"
    /\ dHist.calls < MaxDashCalls
    /\ dHist' = [dHist EXCEPT !.calls = @ + 1]
    /\ IF dash.autoscaleStatus = None
       THEN UNCHANGED dFlight
       ELSE dFlight' =
               [dFlight EXCEPT ![IF dash.autoscaleStatus[1].enabled
                                 THEN "autoscaleStop"
                                 ELSE "autoscaleStart"] = @ + 1]
    /\ last' = "toggleAutoscale"
    /\ UNCHANGED <<now, dash, dLife, refresh>>
    /\ UNCHANGED <<sessionVars, decVars, cfgVars, apiVars, normVars>>

ScaleAllNow ==
    /\ dLife = "active"
    /\ dHist.calls < MaxDashCalls
    /\ dHist' = [dHist EXCEPT !.calls = @ + 1]
    /\ dFlight' = [dFlight EXCEPT !["scaleAll"] = @ + 1]
    /\ last' = "scaleAllNow"
    /\ UNCHANGED <<now, dash, dLife, refresh>>
    /\ UNCHANGED <<sessionVars, decVars, cfgVars, apiVars, normVars>>

\* the callbacks of toggleAutoscale and of scaleAllNow: a response with
\* success reloads the dashboard, a failure sets the error
ActionResponse(op, ok, success) ==
    /\ dFlight[op] > 0
    /\ IF ok
       THEN IF success
            THEN /\ dash' = LoadDashboardFields(dash)
                 /\ dFlight' = LoadDashboardCalls(Done(dFlight, op))
                 /\ dHist' = [dHist EXCEPT !.loadFailed = FALSE]
                 /\ last' = "actionNextReload"
            ELSE /\ dFlight' = Done(dFlight, op)
                 /\ last' = "actionNext"
                 /\ UNCHANGED <<dash, dHist>>
       ELSE /\ dash' = [dash EXCEPT !.error =
                            IF op = "scaleAll" THEN "Failed to scale pods"
                            ELSE "Failed to toggle autoscale"]
            /\ dFlight' = Done(dFlight, op)
            /\ last' = "actionError"
            /\ UNCHANGED dHist
    /\ UNCHANGED <<now, dLife, refresh>>
    /\ UNCHANGED <<sessionVars, decVars, cfgVars, apiVars, normVars>>

RefreshDue == refresh.state = "open" /\ refresh.next <= now

\* the interval emits: switchMap drops the request it has in flight and
\* issues a new getStatistics()
RefreshTick ==
    /\ RefreshDue
    /\ refresh' = [refresh EXCEPT !.next = @ + RefreshPeriod,
                                  !.inflight = TRUE]
    /\ dHist' = [dHist EXCEPT !.refreshIssued = @ + 1]
    /\ last' = "refreshTick"
    /\ UNCHANGED <<now, dash, dLife, dFlight>>
    /\ UNCHANGED <<sessionVars, decVars, cfgVars, apiVars, normVars>>

\* the refresh request resolves; its failure passes through switchMap to
\* the subscriber's error callback, which ends the subscription
RefreshResponse(ok, response) ==
    /\ refresh.state = "open"
    /\ refresh.inflight
    /\ IF ok
       THEN /\ dash' = RefreshNext(dash, response)
            /\ refresh' = [refresh EXCEPT !.inflight = FALSE]
            /\ last' = "refreshNext"
            /\ dHist' = [dHist EXCEPT !.got = IF response.success
                                              THEN response.statistics
                                              ELSE NULL]
       ELSE /\ dash' = RefreshError(dash)
            /\ refresh' = [refresh EXCEPT !.inflight = FALSE,
                                          !.state = "errored"]
            /\ last' = "refreshError"
            /\ UNCHANGED dHist
    /\ UNCHANGED <<now, dLife, dFlight>>
    /\ UNCHANGED <<sessionVars, decVars, cfgVars, apiVars, normVars>>

\* time passes up to the next emission of the interval; an emission that is
\* due is delivered first
DashTick ==
    /\ dLife # "new"
    /\ now + RefreshPeriod <= MaxDashTime
    /\ ~RefreshDue
    /\ now' = now + RefreshPeriod
    /\ last' = "tick"
    /\ UNCHANGED <<dashVars, decVars, cfgVars, apiVars, normVars>>
    /\ UNCHANGED <<sessionVars, decVars, cfgVars, apiVars, normVars>>

DashNext ==
    \/ NgOnInit
    \/ NgOnDestroy
    \/ \E ok \in BOOLEAN, r \in StatResponses : StatisticsResponse(ok, r)
    \/ \E ok \in BOOLEAN, a \in AutoscaleStatuses :
          AutoscaleStatusResponse(ok, a)
    \/ \E ok \in BOOLEAN, c \in ConfigValues : DashConfigResponse(ok, c)
    \/ ToggleAutoscale
    \/ ScaleAllNow
    \/ \E op \in ActionOps, ok \in BOOLEAN, success \in BOOLEAN :
          ActionResponse(op, ok, success)
    \/ RefreshTick
    \/ \E ok \in BOOLEAN, r \in StatResponses : RefreshResponse(ok, r)
    \/ DashTick

\* ------------------------------------------------------------- decisions
Decisions == {"d1", "d2"}
Limits == {10, 25, 50, 100}

RECURSIVE SeqsUpTo(_, _)
SeqsUpTo(S, n) ==
    IF n = 0 THEN {<<>>}
    ELSE LET shorter == SeqsUpTo(S, n - 1)
         IN shorter \cup {Append(q, x) : q \in shorter, x \in S}

DecisionResponses ==
    [success : BOOLEAN, decisions : SeqsUpTo(Decisions, MaxDecisions)]

\* Array.prototype.reverse
reverse(a) == [i \in 1..Len(a) |-> a[Len(a) + 1 - i]]

getDecisions_Default(limit) == [path |-> "/decisions", limit |-> 50]

\* ApiService.getDecisions: the request it sends
getDecisions(limit) == [path |-> "/decisions", limit |-> limit]

\* a DecisionsComponent as constructed
DecNew == [decisions |-> <<>>, loading |-> TRUE, error |-> NULL,
           limit |-> DefaultLimit]
DecHistNew == [issued |-> <<>>, calls |-> 0, got |-> <<>>,
               latest |-> None, bad |-> FALSE]

DecInit ==
    /\ dec = DecNew
    /\ decLife = "new"
    /\ decFlight = {}
    /\ decHist = DecHistNew

\* loadDecisions, up to the subscribe, of a component whose fields are d,
\* with the requests f in flight
LoadDecisionsOf(d, h, f) ==
    /\ dec' = [d EXCEPT !.loading = TRUE, !.error = NULL]
    /\ decHist' = [h EXCEPT !.issued = Append(@, getDecisions(d.limit)),
                            !.calls = @ + 1, !.latest = None]
    /\ decFlight' = f \cup {Len(h.issued) + 1}

LoadDecisions(d) == LoadDecisionsOf(d, decHist, decFlight)

\* the router's outlet: entering /decisions builds a DecisionsComponent and
\* runs its ngOnInit; the component has no ngOnDestroy
DecOutlet(from, to) ==
    IF to = "decisions" /\ from # "decisions"
    THEN /\ decLife' = "active"
         /\ LoadDecisionsOf(DecNew, DecHistNew, {})
    ELSE UNCHANGED decVars

\* the callbacks of loadDecisions
DecisionsNext(d, response) ==
    [d EXCEPT !.decisions = IF response.success
                            THEN reverse(response.decisions) ELSE @,
              !.loading = FALSE]
DecisionsError(d) ==
    [d EXCEPT !.error = "Failed to load decisions", !.loading = FALSE]

DecNgOnInit ==
    /\ decLife = "new"
    /\ decLife' = "active"
    /\ LoadDecisions(dec)
    /\ last' = "loadDecisions"
    /\ UNCHANGED now
    /\ UNCHANGED <<sessionVars, dashVars, cfgVars, apiVars, normVars>>

\* the operator picks a limit in the select: the field is set and the list
\* is loaded again
SelectLimit(n) ==
    /\ decLife = "active"
    /\ decHist.calls < MaxDecCalls
    /\ LoadDecisions([dec EXCEPT !.limit = n])
    /\ last' = "loadDecisions"
    /\ UNCHANGED <<now, decLife>>
    /\ UNCHANGED <<sessionVars, dashVars, cfgVars, apiVars, normVars>>

DecisionsResponse(id, ok, response) ==
    /\ id \in decFlight
    /\ decFlight' = decFlight \ {id}
    /\ IF ok
       THEN /\ dec' = DecisionsNext(dec, response)
            /\ decHist' = [decHist EXCEPT
                              !.got = <<response>>,
                              !.latest = IF id = Len(decHist.issued)
                                         THEN Some(response) ELSE @,
                              !.bad = @ \/ ~response.success]
            /\ last' = "decisionsNext"
       ELSE /\ dec' = DecisionsError(dec)
            /\ last' = "decisionsError"
            /\ decHist' = [decHist EXCEPT !.bad = TRUE]
    /\ UNCHANGED <<now, decLife>>
    /\ UNCHANGED <<sessionVars, dashVars, cfgVars, apiVars, normVars>>

DecNext ==
    \/ DecNgOnInit
    \/ \E n \in Limits : SelectLimit(n)
    \/ \E id \in 1..(MaxDecCalls + 1), ok \in BOOLEAN,
          r \in DecisionResponses : DecisionsResponse(id, ok, r)

\* ---------------------------------------------------------------- config
EditableFields == {"dry_run", "scale_factor", "auto_scale_enabled",
                   "auto_scale_interval", "scaling_cooldown", "namespaces"}

\* what the operator types into the form: a field and its new value
FormEdits ==
    {<<"dry_run", TRUE>>, <<"dry_run", FALSE>>, <<"namespaces", <<>>>>}

\* a ConfigComponent as constructed
CfgNew == [config |-> None, loading |-> TRUE, error |-> NULL,
           success |-> NULL, saving |-> FALSE]
CfgFlightNew == [get |-> 0, update |-> 0]
CfgHistNew == [sent |-> 0, body |-> None, calls |-> 0, shownUntil |-> None]

CfgInit ==
    /\ cfg = CfgNew
    /\ cfgLife = "new"
    /\ cfgFlight = CfgFlightNew
    /\ cfgTimers = <<>>
    /\ cfgHist = CfgHistNew

\* loadConfig, up to the subscribe
LoadConfigFields(c) == [c EXCEPT !.loading = TRUE, !.error = NULL]

\* the callbacks of loadConfig
LoadConfigNext(c, config) ==
    [c EXCEPT !.config = Some(config), !.loading = FALSE]
LoadConfigError(c) ==
    [c EXCEPT !.error = "Failed to load configuration", !.loading = FALSE]

SaveUpdates_Whole(config) == config

\* saveConfig: the body it passes to updateConfig
SaveUpdates(config) ==
    [dry_run |-> config.dry_run,
     scale_factor |-> config.scale_factor,
     auto_scale_enabled |-> config.auto_scale_enabled,
     auto_scale_interval |-> config.auto_scale_interval,
     scaling_cooldown |-> config.scaling_cooldown,
     namespaces |-> config.namespaces]

SaveConfigFields(c) ==
    [c EXCEPT !.saving = TRUE, !.error = NULL, !.success = NULL]

\* ngOnInit of a component whose fields are c, with f in flight
ConfigOnInit(c, f) ==
    /\ cfgLife' = "active"
    /\ cfg' = LoadConfigFields(c)
    /\ cfgFlight' = [f EXCEPT !.get = @ + 1]

\* the router's outlet: entering /config builds a ConfigComponent and runs
\* its ngOnInit; the component has no ngOnDestroy
CfgOutlet(from, to) ==
    IF to = "config" /\ from # "config"
    THEN /\ ConfigOnInit(CfgNew, CfgFlightNew)
         /\ cfgTimers' = <<>>
         /\ cfgHist' = CfgHistNew
    ELSE UNCHANGED cfgVars

CfgNgOnInit ==
    /\ cfgLife = "new"
    /\ ConfigOnInit(cfg, cfgFlight)
    /\ last' = "loadConfig"
    /\ UNCHANGED <<now, cfgTimers, cfgHist>>
    /\ UNCHANGED <<sessionVars, dashVars, decVars, apiVars, normVars>>

\* resetConfig: the operator confirms (or not) and the config is reloaded
ResetConfig(confirmed) ==
    /\ cfgLife = "active"
    /\ cfgHist.calls < MaxCfgCalls
    /\ cfgHist' = [cfgHist EXCEPT !.calls = @ + 1]
    /\ IF confirmed
       THEN /\ cfg' = LoadConfigFields(cfg)
            /\ cfgFlight' = [cfgFlight EXCEPT !.get = @ + 1]
            /\ last' = "loadConfig"
       ELSE /\ last' = "resetDeclined"
            /\ UNCHANGED <<cfg, cfgFlight>>
    /\ UNCHANGED <<now, cfgLife, cfgTimers>>
    /\ UNCHANGED <<sessionVars, dashVars, decVars, apiVars, normVars>>

LoadConfigResponse(ok, config) ==
    /\ cfgFlight.get > 0
    /\ cfgFlight' = [cfgFlight EXCEPT !.get = @ - 1]
    /\ IF ok
       THEN cfg' = LoadConfigNext(cfg, config) /\ last' = "loadConfigNext"
       ELSE cfg' = LoadConfigError(cfg) /\ last' = "loadConfigError"
    /\ UNCHANGED <<now, cfgLife, cfgTimers, cfgHist>>
    /\ UNCHANGED <<sessionVars, dashVars, decVars, apiVars, normVars>>

\* the operator changes a field of the form, which is bound to this.config
EditConfig(f, v) ==
    /\ cfgLife = "active"
    /\ cfg.config # None
    /\ f \in EditableFields
    /\ cfg.config[1][f] # v
    /\ cfg' = [cfg EXCEPT !.config = Some([cfg.config[1] EXCEPT ![f] = v])]
    /\ last' = "editConfig"
    /\ UNCHANGED <<now, cfgLife, cfgFlight, cfgTimers, cfgHist>>
    /\ UNCHANGED <<sessionVars, dashVars, decVars, apiVars, normVars>>

SaveConfig ==
    /\ cfgLife = "active"
    /\ cfgHist.calls < MaxCfgCalls
    /\ IF cfg.config = None
       THEN /\ cfgHist' = [cfgHist EXCEPT !.calls = @ + 1]
            /\ last' = "saveConfigNoConfig"
            /\ UNCHANGED <<cfg, cfgFlight>>
       ELSE /\ cfg' = SaveConfigFields(cfg)
            /\ cfgFlight' = [cfgFlight EXCEPT !.update = @ + 1]
            /\ cfgHist' = [cfgHist EXCEPT
                              !.calls = @ + 1, !.sent = @ + 1,
                              !.body = Some(SaveUpdates(cfg.config[1])),
                              !.shownUntil = None]
            /\ last' = "saveConfig"
    /\ UNCHANGED <<now, cfgLife, cfgTimers>>
    /\ UNCHANGED <<sessionVars, dashVars, decVars, apiVars, normVars>>

\* the callbacks of saveConfig
UpdateResponse(ok, success) ==
    /\ cfgFlight.update > 0
    /\ cfgFlight' = [cfgFlight EXCEPT !.update = @ - 1]
    /\ IF ok
       THEN IF success
            THEN /\ cfg' = [cfg EXCEPT
                              !.success = "Configuration updated successfully!",
                              !.saving = FALSE]
                 /\ cfgTimers' = Append(cfgTimers, now + SuccessTimeout)
                 /\ cfgHist' = [cfgHist EXCEPT
                                   !.shownUntil = Some(now + SuccessTimeout)]
                 /\ last' = "updateNextSuccess"
            ELSE /\ cfg' = [cfg EXCEPT !.saving = FALSE]
                 /\ last' = "updateNext"
                 /\ UNCHANGED <<cfgTimers, cfgHist>>
       ELSE /\ cfg' = [cfg EXCEPT !.error = "Failed to update configuration",
                                  !.saving = FALSE]
            /\ last' = "updateError"
            /\ UNCHANGED <<cfgTimers, cfgHist>>
    /\ UNCHANGED <<now, cfgLife>>
    /\ UNCHANGED <<sessionVars, dashVars, decVars, apiVars, normVars>>

TimeoutDue == cfgTimers # <<>> /\ Head(cfgTimers) <= now

\* the callback of setTimeout
SuccessTimeoutFires ==
    /\ TimeoutDue
    /\ cfgTimers' = Tail(cfgTimers)
    /\ cfg' = [cfg EXCEPT !.success = NULL]
    /\ last' = "successTimeout"
    /\ UNCHANGED <<now, cfgLife, cfgFlight, cfgHist>>
    /\ UNCHANGED <<sessionVars, dashVars, decVars, apiVars, normVars>>

CfgTick ==
    /\ cfgLife # "new"
    /\ now < MaxCfgTime
    /\ ~TimeoutDue
    /\ now' = now + 1
    /\ last' = "tick"
    /\ UNCHANGED <<sessionVars, dashVars, decVars, cfgVars, apiVars, normVars>>

CfgNext ==
    \/ CfgNgOnInit
    \/ \E b \in BOOLEAN : ResetConfig(b)
    \/ \E ok \in BOOLEAN, c \in ConfigValues : LoadConfigResponse(ok, c)
    \/ \E e \in FormEdits : EditConfig(e[1], e[2])
    \/ SaveConfig
    \/ \E ok \in BOOLEAN, success \in BOOLEAN : UpdateResponse(ok, success)
    \/ SuccessTimeoutFires
    \/ CfgTick

\* ------------------------------------------------------------ ApiService
\* the operations of ApiService: method and path of the request each sends
ApiOps ==
    {[name |-> "getHealth",          method |-> "GET",  path |-> "/health"],
     [name |-> "getConfig",          method |-> "GET",  path |-> "/config"],
     [name |-> "updateConfig",       method |-> "POST", path |-> "/config"],
     [name |-> "getPods",            method |-> "GET",  path |-> "/pods"],
     [name |-> "getPodInfo",         method |-> "GET",  path |-> "/pods/ns/pod"],
     [name |-> "scalePod",           method |-> "POST", path |-> "/scale/pod/ns/pod"],
     [name |-> "scaleAllPods",       method |-> "POST", path |-> "/scale/all"],
     [name |-> "getDecisions",       method |-> "GET",  path |-> "/decisions"],
     [name |-> "getStatistics",      method |-> "GET",  path |-> "/statistics"],
     [name |-> "startAutoscale",     method |-> "POST", path |-> "/autoscale/start"],
     [name |-> "stopAutoscale",      method |-> "POST", path |-> "/autoscale/stop"],
     [name |-> "getAutoscaleStatus", method |-> "GET",  path |-> "/autoscale/status"],
     [name |-> "getModelInfo",       method |-> "GET",  path |-> "/model/info"]}

ApiNames == {o.name : o \in ApiOps}

\* what HttpClient hands to catchError: a failure without a response
\* (error.error is an ErrorEvent, or a ProgressEvent with status 0), a
\* non-2xx status, or a 2xx response whose body does not parse
HttpErrors ==
    [isErrorEvent : {TRUE}, eventMessage : {"", "Failed to fetch"},
     status : {0}, message : {"Http failure response: 0 Unknown Error"}]
    \cup
    [isErrorEvent : {FALSE}, eventMessage : {""}, status : {0, 404, 500},
     message : {"Http failure response"}]
    \cup
    [isErrorEvent : {FALSE}, eventMessage : {""}, status : {200},
     message : {"Http failure during parsing"}]

handleError_Rethrow(error) ==
    [type |-> "HttpErrorResponse", message |-> <<error.message>>]

\* ApiService.handleError: the value the caller's error callback receives;
\* the message is the sequence of the parts of the template string
handleError(error) ==
    LET errorMessage ==
            IF error.isErrorEvent
            THEN <<"Error: ", error.eventMessage>>
            ELSE <<"Error Code: ", error.status, "\nMessage: ", error.message>>
    IN [type |-> "Error", message |-> errorMessage]

ApiInit ==
    /\ apiFlight = [n \in ApiNames |-> 0]
    /\ apiHist = [calls |-> 0, requests |-> 0,
                  outcome |-> [kind |-> "none"]]

\* a view calls an operation: http.get / http.post sends one request
ApiCall(op) ==
    /\ apiHist.calls < MaxApiCalls
    /\ apiFlight' = [apiFlight EXCEPT ![op.name] = @ + 1]
    /\ apiHist' = [apiHist EXCEPT !.calls = @ + 1, !.requests = @ + 1]
    /\ last' = "apiCall"
    /\ UNCHANGED now
    /\ UNCHANGED <<sessionVars, dashVars, decVars, cfgVars, normVars>>

\* the request is answered with a 2xx and a body that parses
ApiResponse(op) ==
    /\ apiFlight[op.name] > 0
    /\ apiFlight' = [apiFlight EXCEPT ![op.name] = @ - 1]
    /\ apiHist' = [apiHist EXCEPT !.outcome = [kind |-> "next"]]
    /\ last' = "apiNext"
    /\ UNCHANGED now
    /\ UNCHANGED <<sessionVars, dashVars, decVars, cfgVars, normVars>>

\* the request fails: catchError(this.handleError) turns the failure into
\* the error the caller receives; nothing is sent again
ApiFailure(op, error) ==
    /\ apiFlight[op.name] > 0
    /\ apiFlight' = [apiFlight EXCEPT ![op.name] = @ - 1]
    /\ apiHist' = [apiHist EXCEPT
                      !.outcome = [kind |-> "error", cause |-> error,
                                   value |-> handleError(error)]]
    /\ last' = "apiError"
    /\ UNCHANGED now
    /\ UNCHANGED <<sessionVars, dashVars, decVars, cfgVars, normVars>>

ApiNext ==
    \/ \E op \in ApiOps : ApiCall(op)
    \/ \E op \in ApiOps : ApiResponse(op)
    \/ \E op \in ApiOps, e \in HttpErrors : ApiFailure(op, e)

\* ---------------------------------------- DecisionsComponent accessors
ActionNames == {"DECREASE", "MAINTAIN", "INCREASE"}
MaybeAction == ActionNames \cup {NULL}

\* an optional number is an empty or a one-element sequence
MaybeNum(S) == {None} \cup {Some(n) : n \in S}

Resources == [cpu_cores : {0, 2}, memory_mb : {0, 512}]
Metrics == [cpu_usage : {0, 1}, memory_usage_mb : {0, 256}]
Changes == [change_percent : MaybeNum({0, 10}), new : MaybeNum({0, 3})]
MaybeOf(S) == {None} \cup {Some(x) : x \in S}
ResourceChanges == [cpu : MaybeOf(Changes), memory : MaybeOf(Changes)]

NoDecision ==
    [action |-> NULL, cpu_action |-> NULL, memory_action |-> NULL,
     current_resources |-> None, proposed_resources |-> None,
     current_metrics |-> None, resource_changes |-> None]

\* the decisions handed to the accessors: every combination of the action
\* fields, and every combination of the resource fields
DecisionInputs ==
    {[NoDecision EXCEPT !.action = a, !.cpu_action = c, !.memory_action = m] :
        a \in MaybeAction, c \in MaybeAction, m \in MaybeAction}
    \cup
    {[NoDecision EXCEPT !.current_resources = cr, !.proposed_resources = pr,
                        !.current_metrics = cm, !.resource_changes = rc] :
        cr \in MaybeOf(Resources), pr \in MaybeOf(Resources),
        cm \in MaybeOf(Metrics), rc \in MaybeOf(ResourceChanges)}

\* JavaScript truthiness of an optional string and of an optional number
TruthyStr(x) == x # NULL /\ x # ""
TruthyNum(m) == m # None /\ m[1] # 0

\* obj?.field for a field holding a number
Opt(obj, field) == IF obj = None THEN None ELSE Some(obj[1][field])

\* decision.resource_changes?.<resource>
OptChange(d, resource) ==
    IF d.resource_changes = None THEN None
    ELSE d.resource_changes[1][resource]

\* decision.resource_changes?.<resource>?.<field>
OptChangeField(d, resource, field) ==
    IF OptChange(d, resource) = None THEN None
    ELSE OptChange(d, resource)[1][field]

getOverallAction_DecreaseFirst(d) ==
    IF TruthyStr(d.action) THEN d.action
    ELSE IF TruthyStr(d.cpu_action) /\ TruthyStr(d.memory_action)
         THEN IF d.cpu_action = "DECREASE" \/ d.memory_action = "DECREASE"
              THEN "DECREASE"
              ELSE IF d.cpu_action = "INCREASE" \/ d.memory_action = "INCREASE"
                   THEN "INCREASE"
                   ELSE "MAINTAIN"
         ELSE "MAINTAIN"

getOverallAction(d) ==
    IF TruthyStr(d.action) THEN d.action
    ELSE IF TruthyStr(d.cpu_action) /\ TruthyStr(d.memory_action)
         THEN IF d.cpu_action = "INCREASE" \/ d.memory_action = "INCREASE"
              THEN "INCREASE"
              ELSE IF d.cpu_action = "DECREASE" \/ d.memory_action = "DECREASE"
                   THEN "DECREASE"
                   ELSE "MAINTAIN"
         ELSE "MAINTAIN"

getCurrentCpuCores(d) ==
    IF TruthyNum(Opt(d.current_resources, "cpu_cores"))
    THEN d.current_resources[1].cpu_cores
    ELSE IF TruthyNum(Opt(d.current_metrics, "cpu_usage"))
         THEN d.current_metrics[1].cpu_usage
         ELSE 0

getProposedCpuCores(d) ==
    IF TruthyNum(Opt(d.proposed_resources, "cpu_cores"))
    THEN d.proposed_resources[1].cpu_cores
    ELSE IF TruthyNum(OptChangeField(d, "cpu", "new"))
         THEN OptChangeField(d, "cpu", "new")[1]
         ELSE getCurrentCpuCores(d)

getCurrentMemoryMb(d) ==
    IF TruthyNum(Opt(d.current_resources, "memory_mb"))
    THEN d.current_resources[1].memory_mb
    ELSE IF TruthyNum(Opt(d.current_metrics, "memory_usage_mb"))
         THEN d.current_metrics[1].memory_usage_mb
         ELSE 0

getProposedMemoryMb(d) ==
    IF TruthyNum(Opt(d.proposed_resources, "memory_mb"))
    THEN d.proposed_resources[1].memory_mb
    ELSE IF TruthyNum(OptChangeField(d, "memory", "new"))
         THEN OptChangeField(d, "memory", "new")[1]
         ELSE getCurrentMemoryMb(d)

\* x || 0 for an optional number
OrZero(m) == IF TruthyNum(m) THEN m[1] ELSE 0

getCpuChangePercent(d) == OrZero(OptChangeField(d, "cpu", "change_percent"))

getMemoryChangePercent(d) ==
    OrZero(OptChangeField(d, "memory", "change_percent"))

\* !!(resource_changes?.<resource> && <resource>.change_percent !== 0):
\* an object is truthy, and undefined !== 0 is true
HasChanges(d, resource) ==
    /\ OptChange(d, resource) # None
    /\ OptChange(d, resource)[1].change_percent # Some(0)

hasCpuChanges(d) == HasChanges(d, "cpu")

hasMemoryChanges(d) == HasChanges(d, "memory")

NoOut == [k \in {} |-> NULL]

NormInit ==
    /\ nDecision = NoDecision
    /\ nOut = NoOut

\* the template shows the overall action of the decision
ShowAction ==
    /\ "getOverallAction" \notin DOMAIN nOut
    /\ nOut' = nOut @@ [k \in {"getOverallAction"} |-> getOverallAction(nDecision)]
    /\ last' = "showAction"
    /\ UNCHANGED <<now, nDecision>>
    /\ UNCHANGED <<sessionVars, dashVars, decVars, cfgVars, apiVars>>

\* the template shows the current and the proposed resources
ShowResources ==
    /\ "getCurrentCpuCores" \notin DOMAIN nOut
    /\ nOut' = nOut @@
          [k \in {"getCurrentCpuCores", "getProposedCpuCores",
                  "getCurrentMemoryMb", "getProposedMemoryMb"} |->
              CASE k = "getCurrentCpuCores" -> getCurrentCpuCores(nDecision)
                [] k = "getProposedCpuCores" -> getProposedCpuCores(nDecision)
                [] k = "getCurrentMemoryMb" -> getCurrentMemoryMb(nDecision)
                [] k = "getProposedMemoryMb" -> getProposedMemoryMb(nDecision)]
    /\ last' = "showResources"
    /\ UNCHANGED <<now, nDecision>>
    /\ UNCHANGED <<sessionVars, dashVars, decVars, cfgVars, apiVars>>

\* the template shows the change of each resource
ShowChanges ==
    /\ "hasCpuChanges" \notin DOMAIN nOut
    /\ nOut' = nOut @@
          [k \in {"hasCpuChanges", "hasMemoryChanges"} |->
              CASE k = "hasCpuChanges" -> hasCpuChanges(nDecision)
                [] k = "hasMemoryChanges" -> hasMemoryChanges(nDecision)]
          @@
          [k \in {"getCpuChangePercent", "getMemoryChangePercent"} |->
              CASE k = "getCpuChangePercent" -> getCpuChangePercent(nDecision)
                [] k = "getMemoryChangePercent" ->
                      getMemoryChangePercent(nDecision)]
    /\ last' = "showChanges"
    /\ UNCHANGED <<now, nDecision>>
    /\ UNCHANGED <<sessionVars, dashVars, decVars, cfgVars, apiVars>>

NormNext ==
    \/ ShowAction
    \/ ShowResources
    \/ ShowChanges

SessionInit ==
    /\ storage \in {EmptyStorage,
                    [isAuthenticated |-> "true", username |-> "admin"]}
    /\ subject = getStoredAuthState(storage)
    /\ pending = <<>>
    /\ lError = ""
    /\ lLoading = FALSE
    /\ route = NULL
    /\ sHist = NoHist

Init ==
    /\ now = 0
    /\ last = "init"
    /\ SessionInit
    /\ DashInit
    /\ DecInit
    /\ CfgInit
    /\ ApiInit
    /\ NormInit

\* the subscribers of the logins in p belong to a LoginComponent that is no
\* longer the one built last
Detach(p) == [i \in 1..Len(p) |-> [p[i] EXCEPT !.live = FALSE]]

\* the router's outlet when the activated path goes from `from` to `to`:
\* entering /login builds a new LoginComponent (error '', loading false);
\* the component has no ngOnDestroy and never unsubscribes, so a login it
\* has pending still reports to it after /login is left; p are the logins
\* still pending
LoginOutlet(from, to, p) ==
    IF to = "login" /\ from # "login"
    THEN /\ lError' = ""
         /\ lLoading' = FALSE
         /\ pending' = Detach(p)
    ELSE /\ pending' = p
         /\ UNCHANGED <<lError, lLoading>>

\* the outlet for the three views whose components are modelled
ViewOutlets(from, to) ==
    /\ DashOutlet(from, to)
    /\ DecOutlet(from, to)
    /\ CfgOutlet(from, to)

\* after a page reload no component exists but the one of the activated path
ViewsReloaded(to) ==
    /\ IF to = "dashboard"
       THEN DashboardOnInit(DashNew, DashFlightNew, DashHistNew)
       ELSE /\ dash' = DashNew
            /\ dLife' = "new"
            /\ refresh' = RefreshNew
            /\ dFlight' = DashFlightNew
            /\ dHist' = DashHistNew
    /\ IF to = "decisions"
       THEN /\ decLife' = "active"
            /\ LoadDecisionsOf(DecNew, DecHistNew, {})
       ELSE /\ dec' = DecNew
            /\ decLife' = "new"
            /\ decFlight' = {}
            /\ decHist' = DecHistNew
    /\ IF to = "config"
       THEN /\ ConfigOnInit(CfgNew, CfgFlightNew)
            /\ cfgTimers' = <<>>
            /\ cfgHist' = CfgHistNew
       ELSE /\ cfg' = CfgNew
            /\ cfgLife' = "new"
            /\ cfgFlight' = CfgFlightNew
            /\ cfgTimers' = <<>>
            /\ cfgHist' = CfgHistNew

\* LoginComponent.onSubmit with the form holding (username, password); the
\* form is displayed while /login is the activated path
OnSubmit(username, password) ==
    /\ UNCHANGED <<dashVars, decVars, cfgVars, apiVars, normVars>>
    /\ route = "login"
    /\ Len(pending) < MaxPending
    /\ IF username = "" \/ password = ""
       THEN /\ lError' = "Please enter both username and password"
            /\ last' = "submitRejected"
            /\ sHist' = [sHist EXCEPT !.pre = Snapshot]
            /\ UNCHANGED <<lLoading, pending>>
       ELSE /\ lLoading' = TRUE
            /\ lError' = ""
            /\ pending' = Append(pending, [username |-> username,
                                           password |-> password, at |-> now,
                                           live |-> TRUE])
            /\ last' = "submit"
            /\ sHist' = [sHist EXCEPT !.pre = Snapshot,
                                      !.sinceLogout = IF @ = "logout"
                                                      THEN "login" ELSE @]
    /\ UNCHANGED <<now, storage, subject, route>>

\* the delay of the oldest pending login elapses: tap, then the subscriber,
\* which writes to the component that subscribed and navigates on success
LoginResolve ==
    /\ UNCHANGED <<apiVars, normVars>>
    /\ pending # <<>>
    /\ Head(pending).at + LoginDelay <= now
    /\ LET l == Head(pending)
           success == isValid(l.username, l.password)
           sub == LoginTapSubject(subject, success)
       IN /\ storage' = LoginTapStorage(storage, success, l.username)
          /\ subject' = sub
          /\ lLoading' = IF l.live THEN FALSE ELSE lLoading
          /\ IF success
             THEN /\ route' = Activate("dashboard", sub)
                  /\ pending' = Tail(pending)
                  /\ ViewOutlets(route, Activate("dashboard", sub))
                  /\ UNCHANGED lError
                  /\ sHist' = [sHist EXCEPT !.pre = Snapshot, !.login = l,
                                            !.result = success,
                                            !.requested = "dashboard",
                                            !.authAtNav = sub]
             ELSE /\ lError' = IF l.live THEN "Invalid credentials"
                                ELSE lError
                  /\ pending' = Tail(pending)
                  /\ UNCHANGED <<route, dashVars, decVars, cfgVars>>
                  /\ sHist' = [sHist EXCEPT !.pre = Snapshot, !.login = l,
                                            !.result = success]
    /\ last' = "loginResolve"
    /\ UNCHANGED now

Logout ==
    /\ UNCHANGED <<dashVars, decVars, cfgVars, apiVars, normVars>>
    /\ storage' = LogoutStorage(storage)
    /\ subject' = FALSE
    /\ sHist' = [sHist EXCEPT !.pre = Snapshot, !.sinceLogout = "logout"]
    /\ last' = "logout"
    /\ UNCHANGED <<now, pending, lError, lLoading, route>>

\* a navigation to a URL: route matching, redirects, canActivate, and the
\* outlet's component for the activated path
Navigate(path) ==
    /\ UNCHANGED <<apiVars, normVars>>
    /\ route' = Activate(path, isAuthenticated)
    /\ LoginOutlet(route, Activate(path, isAuthenticated), pending)
    /\ ViewOutlets(route, Activate(path, isAuthenticated))
    /\ sHist' = [sHist EXCEPT !.pre = Snapshot,
                              !.requested = ResolveRoute(path).path,
                              !.authAtNav = isAuthenticated]
    /\ last' = "navigate"
    /\ UNCHANGED <<now, storage, subject>>

\* a page reload: timers and requests die, a new AuthService is built from
\* localStorage, the URL is navigated to and its component is built
Reload(path) ==
    /\ UNCHANGED <<apiVars, normVars>>
    /\ ViewsReloaded(Activate(path, getStoredAuthState(storage)))
    /\ subject' = getStoredAuthState(storage)
    /\ pending' = <<>>
    /\ lError' = ""
    /\ lLoading' = FALSE
    /\ route' = Activate(path, getStoredAuthState(storage))
    /\ sHist' = [sHist EXCEPT !.pre = Snapshot,
                              !.requested = ResolveRoute(path).path,
                              !.authAtNav = getStoredAuthState(storage)]
    /\ last' = "reload"
    /\ UNCHANGED <<now, storage>>

LoginDue == pending # <<>> /\ Head(pending).at + LoginDelay <= now

\* one second passes; a timer that is due fires first
SessionTick ==
    /\ UNCHANGED <<dashVars, decVars, cfgVars, apiVars, normVars>>
    /\ now < MaxSessionTime
    /\ ~LoginDue
    /\ now' = now + 1
    /\ last' = "tick"
    /\ UNCHANGED <<storage, subject, pending, lError, lLoading, route, sHist>>

Next ==
    \/ \E u \in Usernames, p \in Passwords : OnSubmit(u, p)
    \/ LoginResolve
    \/ Logout
    \/ \E p \in Paths : Navigate(p)
    \/ \E p \in Paths : Reload(p)
    \/ SessionTick

Spec == Init /\ [][Next]_vars

\* the views are activated in an authenticated session
InitView == Init /\ subject = TRUE

SpecDashboard == InitView /\ [][DashNext]_vars

SpecDecisions == InitView /\ [][DecNext]_vars

SpecConfig == InitView /\ [][CfgNext]_vars

SpecApi == InitView /\ [][ApiNext]_vars

\* the decisions view holds any decision of DecisionInputs
InitNormalizer ==
    /\ now = 0
    /\ last = "init"
    /\ SessionInit
    /\ subject = TRUE
    /\ DashInit
    /\ DecInit
    /\ CfgInit
    /\ ApiInit
    /\ nDecision \in DecisionInputs
    /\ nOut = NoOut

SpecNormalizer == InitNormalizer /\ [][NormNext]_vars

\* ------------------------------------------------------ claims: session
ProtectedViews == {"dashboard", "pods", "decisions", "config"}

AdminLogin == sHist.login.username = "admin" /\ sHist.login.password = "admin"

\* C1: a login with ("admin", "admin") resolves true, and not before the
\* simulated delay has elapsed; at that moment the persisted flag is 'true',
\* the username is persisted and the session signal is true.  A session
\* restore reports authenticated from a storage holding the flag and
\* unauthenticated from a storage without it.
C1_AdminLoginPersists ==
    /\ (last = "loginResolve" /\ AdminLogin) =>
          /\ sHist.result = TRUE
          /\ now >= sHist.login.at + 1
          /\ storage["isAuthenticated"] = "true"
          /\ storage["username"] = "admin"
          /\ subject = TRUE
    /\ last = "reload" =>
          /\ (storage["isAuthenticated"] = "true" => isAuthenticated)
          /\ (storage["isAuthenticated"] = NULL => ~isAuthenticated)

C1_Witness ==
    /\ last = "loginResolve" /\ AdminLogin
    /\ sHist.pre.subject = FALSE
    /\ sHist.pre.storage = EmptyStorage

\* C2: a login with any pair other than ("admin", "admin") resolves false
\* and leaves both persisted entries and the session signal as they were,
\* from an authenticated and from an unauthenticated session alike.
C2_BadLoginChangesNothing ==
    (last = "loginResolve" /\ ~AdminLogin) =>
        /\ sHist.result = FALSE
        /\ storage = sHist.pre.storage
        /\ subject = sHist.pre.subject

C2_Witness ==
    /\ last = "loginResolve"
    /\ sHist.login.username = "admin" /\ sHist.login.password = "pw"
    /\ sHist.pre.subject = FALSE

\* C3: right after logout both persisted entries are gone, isAuthenticated()
\* is false and getUsername() is null, whatever the session was before.
C3_LogoutClears ==
    last = "logout" =>
        /\ storage["isAuthenticated"] = NULL
        /\ storage["username"] = NULL
        /\ isAuthenticated = FALSE
        /\ getUsername = NULL

C3_Witness ==
    /\ last = "logout"
    /\ sHist.pre.subject = TRUE
    /\ sHist.pre.storage["username"] = "admin"

\* C4: a protected view is activated only when the session read at
\* navigation time is authenticated; an unauthenticated navigation to a
\* protected view ends on the login route; the login route needs no session.
C4_GuardedViews ==
    /\ route \in ProtectedViews => sHist.authAtNav
    /\ (sHist.requested \in ProtectedViews /\ ~sHist.authAtNav) =>
          route = "login"
    /\ sHist.requested = "login" => route = "login"

C4_Witness ==
    /\ last = "navigate"
    /\ sHist.requested = "config"
    /\ ~sHist.authAtNav
    /\ route = "login"

\* ---------------------------------------------------- claims: dashboard
LoadFailEvents == {"statisticsError", "autoscaleStatusError", "configError"}

DashData(d) == <<d.statistics, d.autoscaleStatus, d.config>>

\* no request of a loadDashboard is in flight
LoadQuiet(f) ==
    f["statistics"] = 0 /\ f["autoscaleStatus"] = 0 /\ f["config"] = 0

\* C5 (as claimed, for the dashboard): a failing call of the load action
\* leaves the data the view held untouched, and once the load's calls have
\* resolved the view shows a non-empty error string and loading = false.
C5_LoadFailureShown ==
    [][ /\ last' \in LoadFailEvents => DashData(dash') = DashData(dash)
        /\ (dHist'.loadFailed /\ LoadQuiet(dFlight')) =>
              /\ dash'.error # NULL
              /\ dash'.error # ""
              /\ dash'.loading = FALSE ]_vars

\* C6 (as claimed): while the dashboard is active one statistics request
\* has been issued for every 10-second tick since activation, and a
\* successful response replaces the displayed statistics by its snapshot.
C6_RefreshEveryTick ==
    /\ (dLife = "active" /\ ~RefreshDue) =>
           dHist.refreshIssued = (now - dHist.activatedAt) \div 10
    /\ (last = "refreshNext" /\ dHist.got # NULL) =>
           dash.statistics = dHist.got

\* C7: a failing periodic refresh leaves the displayed statistics and the
\* dashboard's error field as they were.
C7_RefreshFailureSilent ==
    [][ last' = "refreshError" =>
            /\ dash'.statistics = dash.statistics
            /\ dash'.error = dash.error ]_vars

C7_Witness ==
    /\ last = "refreshError"
    /\ dash.statistics \in Stats
    /\ dash.error = NULL
    /\ dash.loading = FALSE

\* C8 (as claimed): once the dashboard is destroyed the timer issues no
\* refresh request and no response changes the state of the view.
C8_DestroyedIsInert ==
    [][ dLife = "destroyed" =>
            /\ dHist'.refreshIssued = dHist.refreshIssued
            /\ dash' = dash ]_vars

\* ---------------------------------------------------- claims: decisions
\* C9: each load of the decisions view issues exactly one list request,
\* carrying the selected limit (one of 10, 25, 50, 100), no other step
\* issues one, and after a successful response the displayed list is the
\* received list in reverse order, with the same length.
C9_OneRequestReversed ==
    [][ /\ last' = "loadDecisions" =>
              /\ Len(decHist'.issued) = Len(decHist.issued) + 1
              /\ SubSeq(decHist'.issued, 1, Len(decHist.issued)) =
                    decHist.issued
              /\ dec'.limit \in {10, 25, 50, 100}
              /\ decHist'.issued[Len(decHist'.issued)].limit = dec'.limit
        /\ last' # "loadDecisions" => decHist'.issued = decHist.issued
        /\ (last' = "decisionsNext" /\ decHist'.got[1].success) =>
              LET received == decHist'.got[1].decisions
                  n == Len(received)
              IN /\ Len(dec'.decisions) = n
                 /\ \A i \in 1..n : dec'.decisions[i] = received[n + 1 - i]
      ]_vars

C9_Witness ==
    /\ last = "decisionsNext"
    /\ dec.limit = 25
    /\ decHist.issued[Len(decHist.issued)].limit = 25
    /\ decHist.got[1].success
    /\ decHist.got[1].decisions = <<"d1", "d2">>
    /\ dec.decisions = <<"d2", "d1">>

\* ------------------------------------------------------- claims: config
\* C10: a save with a config loaded sends one update request whose body has
\* exactly the six editable fields, each with the value the view holds;
\* a save without a config sends nothing.
C10_SaveSendsSixFields ==
    [][ /\ last' = "saveConfig" =>
              /\ cfgHist'.sent = cfgHist.sent + 1
              /\ cfgFlight'.update = cfgFlight.update + 1
              /\ DOMAIN cfgHist'.body[1] =
                    {"dry_run", "scale_factor", "auto_scale_enabled",
                     "auto_scale_interval", "scaling_cooldown", "namespaces"}
              /\ \A f \in DOMAIN cfgHist'.body[1] :
                    cfgHist'.body[1][f] = cfg.config[1][f]
        /\ last' = "saveConfigNoConfig" =>
              /\ cfg.config = <<>>
              /\ cfgHist'.sent = cfgHist.sent
              /\ cfgFlight' = cfgFlight
        /\ last' \notin {"saveConfig", "saveConfigNoConfig"} =>
              cfgHist'.sent = cfgHist.sent
      ]_vars

C10_Witness ==
    /\ last = "saveConfig"
    /\ cfg.config[1].dry_run = TRUE
    /\ cfg.config[1].in_cluster = TRUE
    /\ cfgHist.body[1].dry_run = TRUE
    /\ cfgHist.sent = 2

\* ------------------------------------------- claims: config, continued
\* C11 (as claimed): the success message of the latest successful save is
\* shown until 3 seconds after that success, and is cleared once the timer
\* of that save has fired.
C11_SuccessShownThreeSeconds ==
    cfgHist.shownUntil # <<>> =>
        /\ now < cfgHist.shownUntil[1] =>
              cfg.success = "Configuration updated successfully!"
        /\ (\A i \in 1..Len(cfgTimers) : cfgTimers[i] # cfgHist.shownUntil[1])
              => cfg.success = NULL

\* --------------------------------------------------- claims: ApiService
\* C12: every call has sent exactly one HTTP request, a failure sends none
\* again, and every failure reaches the caller as an Error value with a
\* non-empty message.
C12_OneRequestUniformError ==
    /\ apiHist.requests = apiHist.calls
    /\ apiHist.outcome.kind = "error" =>
          /\ apiHist.outcome.value.type = "Error"
          /\ Len(apiHist.outcome.value.message) > 0
          /\ apiHist.outcome.value.message[1] # ""

C12_Witness ==
    /\ last = "apiError"
    /\ apiHist.outcome.kind = "error"
    /\ apiHist.outcome.cause.status = 200
    /\ apiHist.calls = 2

\* ---------------------------------------------------- claims: accessors
\* C13: getOverallAction returns `action` when it is present; otherwise,
\* with cpu_action and memory_action set, INCREASE if either is INCREASE,
\* else DECREASE if either is DECREASE, else MAINTAIN.
C13_OverallAction ==
    "getOverallAction" \in DOMAIN nOut =>
        LET d == nDecision
            r == nOut["getOverallAction"]
            both == {d.cpu_action, d.memory_action}
        IN /\ d.action # NULL => r = d.action
           /\ (d.action = NULL /\ NULL \notin both) =>
                 /\ "INCREASE" \in both => r = "INCREASE"
                 /\ ("INCREASE" \notin both /\ "DECREASE" \in both) =>
                       r = "DECREASE"
                 /\ both = {"MAINTAIN"} => r = "MAINTAIN"

C13_Witness ==
    /\ "getOverallAction" \in DOMAIN nOut
    /\ nDecision.action = NULL
    /\ nDecision.cpu_action = "DECREASE"
    /\ nDecision.memory_action = "INCREASE"
    /\ nOut["getOverallAction"] = "INCREASE"

\* the value a preference chain selects: the first field that is present
FirstPresent(a, b, default) ==
    IF a # <<>> THEN a[1] ELSE IF b # <<>> THEN b[1] ELSE default

\* C14 (as claimed): current CPU cores is current_resources.cpu_cores when
\* current_resources is present, else current_metrics.cpu_usage, else 0;
\* proposed CPU cores is proposed_resources.cpu_cores when present, else
\* resource_changes.cpu.new, else the current value; the same for memory;
\* a preferred value of 0 is returned as 0.
C14_ResourceFallbacks ==
    "getCurrentCpuCores" \in DOMAIN nOut =>
        LET d == nDecision
            curCpu == FirstPresent(Opt(d.current_resources, "cpu_cores"),
                                   Opt(d.current_metrics, "cpu_usage"), 0)
            curMem == FirstPresent(Opt(d.current_resources, "memory_mb"),
                                   Opt(d.current_metrics, "memory_usage_mb"),
                                   0)
        IN /\ nOut["getCurrentCpuCores"] = curCpu
           /\ nOut["getCurrentMemoryMb"] = curMem
           /\ nOut["getProposedCpuCores"] =
                 FirstPresent(Opt(d.proposed_resources, "cpu_cores"),
                              OptChangeField(d, "cpu", "new"), curCpu)
           /\ nOut["getProposedMemoryMb"] =
                 FirstPresent(Opt(d.proposed_resources, "memory_mb"),
                              OptChangeField(d, "memory", "new"), curMem)

\* C15 (as claimed): for cpu and for memory, has-changes is true exactly
\* when change_percent is present and non-zero, and the change percent is
\* the value of that field, or 0 when it is absent.
C15_ChangePercent ==
    "hasCpuChanges" \in DOMAIN nOut =>
        LET cpu == OptChangeField(nDecision, "cpu", "change_percent")
            mem == OptChangeField(nDecision, "memory", "change_percent")
        IN /\ nOut["hasCpuChanges"] = (cpu # <<>> /\ cpu[1] # 0)
           /\ nOut["hasMemoryChanges"] = (mem # <<>> /\ mem[1] # 0)
           /\ nOut["getCpuChangePercent"] = FirstPresent(cpu, <<>>, 0)
           /\ nOut["getMemoryChangePercent"] = FirstPresent(mem, <<>>, 0)

\* ------------------------------------------ claims: session, continued
\* C16 (as claimed): after a logout the session signal and the persisted
\* flag stay unauthenticated until a login is submitted after that logout.
C16_LogoutIsFinal ==
    sHist.sinceLogout = "logout" =>
        /\ subject = FALSE
        /\ storage["isAuthenticated"] # "true"

\* ---------------------------------------- claims: decisions, continued
\* C17 (as claimed): once every list request has resolved successfully the
\* displayed decisions are the reversed response of the request issued
\* last, and loading is false only when no list request is in flight.
C17_LatestRequestWins ==
    /\ (decHist.issued # <<>> /\ decFlight = {} /\ ~decHist.bad) =>
          LET received == decHist.latest[1].decisions
              n == Len(received)
          IN /\ Len(dec.decisions) = n
             /\ \A i \in 1..n : dec.decisions[i] = received[n + 1 - i]
    /\ dec.loading = FALSE => decFlight = {}

====
